---- MODULE Spec2Model ----
(***************************************************************************)
(* Model of the MongoDB Atlas "microservices API + semantic search"        *)
(* solution template: the todos Lambda handler, the semantic-search Lambda *)
(* handler and the CSV importer.                                           *)
(*                                                                         *)
(* Representation of Python / JSON values                                  *)
(*   - a JSON scalar is a string; ABSENT marks a key that is not in a dict *)
(*     and NULL is Python's None / JSON null;                              *)
(*   - a dict with a fixed set of possible keys is a record whose fields   *)
(*     are ABSENT when the key is missing;                                 *)
(*   - a dict whose keys are computed (a filter, a $set, a pipeline stage, *)
(*     an imported row) is an association list: a sequence of <<key,      *)
(*     value>> pairs in insertion order;                                   *)
(*   - an optional value is a sequence of length 0 or 1;                   *)
(*   - a response body stands for the JSON text json.dumps produces and is *)
(*     written as the JSON value that text denotes.                        *)
(* Request signing (boto3 session, SigV4Auth.add_auth) is taken to         *)
(* succeed: the handlers run with the credentials of their execution role. *)
(***************************************************************************)
EXTENDS Integers, Sequences, FiniteSets, TLC

VARIABLES pc, handler, event, env, response, calls,
          csvfile, reader, index, inserted, import_pc,
          backend, store, next_id, clock, deleted

vars == <<pc, handler, event, env, response, calls,
          csvfile, reader, index, inserted, import_pc,
          backend, store, next_id, clock, deleted>>

handlerVars == <<pc, handler, event, env, response, calls>>
importVars == <<csvfile, reader, index, inserted, import_pc>>
storeVars == <<backend, store, next_id, clock, deleted>>

----------------------------------------------------------------------------
(* Bounds *)

\* number of distinct readings of the clock (datetime.utcnow)
MaxTime == 2
\* largest dimension of an embedding vector (the real model returns 1536)
MaxDim == 2
\* largest number of data rows of an imported CSV file
MaxRows == 2
\* number of requests served against the backing store
MaxClock == 4

----------------------------------------------------------------------------
(* JSON / Python values *)

ABSENT == "<absent>"
NULL == "<null>"

\* Python truthiness of a JSON scalar (None and "" are falsy)
Truthy(v) == v # NULL /\ v # ""

\* dict.get(key) on a record-encoded dict: None when the key is missing
Get(d, key) == IF d[key] = ABSENT THEN NULL ELSE d[key]

\* `key in dict`
Has(d, key) == d[key] # ABSENT

\* association lists
Keys(assoc) == {assoc[i][1] : i \in 1..Len(assoc)}
Lookup(assoc, key) == assoc[CHOOSE i \in 1..Len(assoc) : assoc[i][1] = key][2]

\* datetime.isoformat(): the reading t of the clock as an ISO-8601 string
isoformat(t) == <<"2026-01-01T00:00:", t>>

Times == 1..MaxTime

----------------------------------------------------------------------------
(* Events delivered by the API gateway *)

Methods == {"GET", "POST", "PUT", "DELETE", "PATCH"}

Ids == {"1", "2"}

\* event['pathParameters']: key missing, null, or a dict with or without id
PathParams ==
    {[kind |-> "absent", id |-> ABSENT], [kind |-> "null", id |-> ABSENT]}
    \cup {[kind |-> "dict", id |-> v] : v \in {ABSENT, ""} \cup Ids}

\* the object a todos request body can denote
TodoObjects ==
    [title : {ABSENT, NULL, "", "a"},
     description : {ABSENT, NULL, "", "d"},
     completed : {ABSENT, "true", "false"},
     other : {ABSENT, "x"}]

EmptyTodoObject ==
    [title |-> ABSENT, description |-> ABSENT, completed |-> ABSENT, other |-> ABSENT]

\* event['body'] of a todos request: key missing, null, text that is not
\* JSON, or JSON text denoting an object, an array or null
TodoBodies ==
    {[kind |-> k, type |-> "none", obj |-> EmptyTodoObject] :
        k \in {"absent", "null", "malformed"}}
    \cup {[kind |-> "json", type |-> t, obj |-> EmptyTodoObject] : t \in {"array", "null"}}
    \cup {[kind |-> "json", type |-> "object", obj |-> o] : o \in TodoObjects}

TodoEvents == [httpMethod : Methods, pathParameters : PathParams, body : TodoBodies]

----------------------------------------------------------------------------
(* The Data API as seen by one invocation *)

Doc1 ==
    [id |-> "1", title |-> "a", description |-> "", completed |-> "false",
     created_at |-> isoformat(1), updated_at |-> isoformat(1)]
Doc2 ==
    [id |-> "2", title |-> "b", description |-> "d", completed |-> "true",
     created_at |-> isoformat(1), updated_at |-> isoformat(2)]

\* a decoded 2xx body; type "array" is a body that is JSON but not an object;
\* document is empty when the key is missing or null, documents when the
\* key is missing or the list is empty
EmptyResult ==
    [type |-> "object", document |-> <<>>, documents |-> <<>>,
     insertedId |-> ABSENT, modifiedCount |-> <<>>, deletedCount |-> <<>>]

Results ==
    {EmptyResult,
     [EmptyResult EXCEPT !.type = "array"],
     [EmptyResult EXCEPT !.document = <<Doc1>>],
     [EmptyResult EXCEPT !.document = <<Doc2>>],
     [EmptyResult EXCEPT !.documents = <<Doc1, Doc2>>],
     [EmptyResult EXCEPT !.insertedId = "3"],
     [EmptyResult EXCEPT !.modifiedCount = <<0>>],
     [EmptyResult EXCEPT !.modifiedCount = <<1>>],
     [EmptyResult EXCEPT !.deletedCount = <<0>>],
     [EmptyResult EXCEPT !.deletedCount = <<1>>]}

\* outcome of urlopen + read + json.loads for the one request
Replies ==
    {[kind |-> "ok", code |-> 200, result |-> r] : r \in Results}
    \cup {[kind |-> "http_error", code |-> c, result |-> EmptyResult] : c \in {404, 500}}
    \cup {[kind |-> k, code |-> 0, result |-> EmptyResult] : k \in {"transport", "decode"}}

----------------------------------------------------------------------------
(* todos_service_lambda_template.py *)

JsonHeaders == [ContentType |-> "application/json"]

\* outcome of a call that may raise: the requests it sent, and either the
\* exception message (a tuple of its parts) or the value returned
Returned(reqs, v) == [calls |-> reqs, raised |-> FALSE, exc |-> <<>>, value |-> v]
Raised(reqs, msg) == [calls |-> reqs, raised |-> TRUE, exc |-> msg, value |-> EmptyResult]

\* call_mongodb_api(endpoint, data): one signed POST; reply is what urlopen,
\* read and json.loads make of it
\* a plausible slip: a failed request is sent a second time before raising
call_mongodb_api_retry(endpoint, data, reply) ==
    LET req == [endpoint |-> endpoint, data |-> data] IN
    CASE reply.kind = "ok" -> Returned(<<req>>, reply.result)
      [] reply.kind = "http_error" ->
            Raised(<<req, req>>, <<"MongoDB API error: ", reply.code>>)
      [] reply.kind = "transport" -> Raised(<<req, req>>, <<"<urlopen error>">>)
      [] reply.kind = "decode" -> Raised(<<req, req>>, <<"Expecting value">>)

call_mongodb_api(endpoint, data, reply) ==
    LET req == [endpoint |-> endpoint, data |-> data] IN
    CASE reply.kind = "ok" -> Returned(<<req>>, reply.result)
      [] reply.kind = "http_error" ->
            Raised(<<req>>, <<"MongoDB API error: ", reply.code>>)
      [] reply.kind = "transport" -> Raised(<<req>>, <<"<urlopen error>">>)
      [] reply.kind = "decode" -> Raised(<<req>>, <<"Expecting value">>)

\* result.get(...) on a decoded body that is not a JSON object
NoGet == <<"'list' object has no attribute 'get'">>

list_todos(reply) ==
    LET data == [database |-> "todos", collection |-> "items", filter |-> <<>>]
        r == call_mongodb_api("find", data, reply)
    IN  IF r.raised THEN r
        ELSE IF r.value.type # "object" THEN Raised(r.calls, NoGet)
        ELSE Returned(r.calls, r.value.documents)

\* a plausible slip: the lookup goes to the find endpoint
get_todo_by_id_find(todo_id, reply) ==
    LET data == [database |-> "todos", collection |-> "items",
                 filter |-> << <<"_id", todo_id>> >>]
        r == call_mongodb_api("find", data, reply)
    IN  IF r.raised THEN r
        ELSE IF r.value.type # "object" THEN Raised(r.calls, NoGet)
        ELSE Returned(r.calls, r.value.document)

get_todo_by_id(todo_id, reply) ==
    LET data == [database |-> "todos", collection |-> "items",
                 filter |-> << <<"_id", todo_id>> >>]
        r == call_mongodb_api("findOne", data, reply)
    IN  IF r.raised THEN r
        ELSE IF r.value.type # "object" THEN Raised(r.calls, NoGet)
        ELSE Returned(r.calls, r.value.document)

\* a plausible slip: the description is stored as passed, None included
new_document_raw(title, description, now) ==
    [title |-> title,
     description |-> description,
     completed |-> "false",
     created_at |-> isoformat(now),
     updated_at |-> isoformat(now)]

\* the document create_todo builds; now is the one reading of utcnow()
new_document(title, description, now) ==
    [title |-> title,
     description |-> IF Truthy(description) THEN description ELSE "",
     completed |-> "false",
     created_at |-> isoformat(now),
     updated_at |-> isoformat(now)]

create_todo(title, description, now, reply) ==
    LET document == new_document(title, description, now)
        data == [database |-> "todos", collection |-> "items", document |-> document]
    IN  call_mongodb_api("insertOne", data, reply)

\* a plausible slip: the update is sent without refreshing updated_at
update_todo_stale(todo_id, updates, now, reply) ==
    LET data == [database |-> "todos", collection |-> "items",
                 filter |-> << <<"_id", todo_id>> >>,
                 update |-> [set |-> updates]]
    IN  call_mongodb_api("updateOne", data, reply)

update_todo(todo_id, updates, now, reply) ==
    LET set == Append(updates, <<"updated_at", isoformat(now)>>)
        data == [database |-> "todos", collection |-> "items",
                 filter |-> << <<"_id", todo_id>> >>,
                 update |-> [set |-> set]]
    IN  call_mongodb_api("updateOne", data, reply)

delete_todo(todo_id, reply) ==
    LET data == [database |-> "todos", collection |-> "items",
                 filter |-> << <<"_id", todo_id>> >>]
    IN  call_mongodb_api("deleteOne", data, reply)

\* json.loads(event.get('body', '{}')) of a todos request
todos_json_loads(body) ==
    CASE body.kind = "absent" -> Returned(<<>>, [type |-> "object", obj |-> EmptyTodoObject])
      [] body.kind = "null" ->
            Raised(<<>>, <<"the JSON object must be str, bytes or bytearray, not NoneType">>)
      [] body.kind = "malformed" -> Raised(<<>>, <<"Expecting value">>)
      [] body.kind = "json" -> Returned(<<>>, [type |-> body.type, obj |-> body.obj])

\* event.get('pathParameters') or {}, then .get('id')
path_id(ev) ==
    IF ev.pathParameters.kind = "dict" THEN Get(ev.pathParameters, "id") ELSE NULL

\* a plausible slip: `if title is None`
no_title_is_none(title) == title = NULL

\* `if not title`
no_title(title) == ~Truthy(title)

\* a plausible slip: `if todo_id is None`
no_todo_id_is_none(todo_id) == todo_id = NULL

\* `if not todo_id`
no_todo_id(todo_id) == ~Truthy(todo_id)

Reply(status, body, reqs) ==
    [response |-> [statusCode |-> status, headers |-> JsonHeaders, body |-> body],
     calls |-> reqs]

\* the GET branch
todos_get(ev, e) ==
    LET todo_id == path_id(ev) IN
    IF Truthy(todo_id)
    THEN LET r == get_todo_by_id(todo_id, e.reply) IN
         IF r.raised THEN r
         ELSE IF r.value # <<>>
              THEN Returned(r.calls, Reply(200, r.value[1], r.calls))
              ELSE Returned(r.calls, Reply(404, [error |-> "Todo not found"], r.calls))
    ELSE LET r == list_todos(e.reply) IN
         IF r.raised THEN r
         ELSE Returned(r.calls, Reply(200, [todos |-> r.value], r.calls))

\* the POST branch
todos_post(ev, e) ==
    LET b == todos_json_loads(ev.body) IN
    IF b.raised THEN b
    ELSE IF b.value.type # "object"
         THEN Raised(<<>>, <<"object has no attribute 'get'">>)
    ELSE LET title == Get(b.value.obj, "title")
             description == Get(b.value.obj, "description")
         IN  IF no_title(title)
             THEN Returned(<<>>, Reply(400, [error |-> "title is required"], <<>>))
             ELSE LET r == create_todo(title, description, e.now, e.reply) IN
                  IF r.raised THEN r
                  ELSE Returned(r.calls, Reply(201, r.value, r.calls))

\* a plausible slip: every key of the body is copied
put_updates_all(obj) ==
    (IF Has(obj, "title") THEN << <<"title", obj.title>> >> ELSE <<>>)
    \o (IF Has(obj, "description") THEN << <<"description", obj.description>> >> ELSE <<>>)
    \o (IF Has(obj, "completed") THEN << <<"completed", obj.completed>> >> ELSE <<>>)
    \o (IF Has(obj, "other") THEN << <<"other", obj.other>> >> ELSE <<>>)

\* the updates dict the PUT branch collects from the body
put_updates(obj) ==
    (IF Has(obj, "title") THEN << <<"title", obj.title>> >> ELSE <<>>)
    \o (IF Has(obj, "description") THEN << <<"description", obj.description>> >> ELSE <<>>)
    \o (IF Has(obj, "completed") THEN << <<"completed", obj.completed>> >> ELSE <<>>)

\* the PUT branch
todos_put(ev, e) ==
    LET todo_id == path_id(ev) IN
    IF no_todo_id(todo_id)
    THEN Returned(<<>>, Reply(400, [error |-> "todo id is required"], <<>>))
    ELSE LET b == todos_json_loads(ev.body) IN
         IF b.raised THEN b
         ELSE IF b.value.type = "null"
              THEN Raised(<<>>, <<"argument of type 'NoneType' is not iterable">>)
         ELSE LET updates == IF b.value.type = "object"
                             THEN put_updates(b.value.obj) ELSE <<>>
              IN  IF updates = <<>>
                  THEN Returned(<<>>, Reply(400, [error |-> "No fields to update"], <<>>))
                  ELSE LET r == update_todo(todo_id, updates, e.now, e.reply) IN
                       IF r.raised THEN r
                       ELSE IF r.value.type # "object" THEN Raised(r.calls, NoGet)
                       ELSE IF r.value.modifiedCount # <<>> /\ r.value.modifiedCount[1] > 0
                            THEN Returned(r.calls, Reply(200, r.value, r.calls))
                            ELSE Returned(r.calls,
                                          Reply(404, [error |-> "Todo not found"], r.calls))

\* the DELETE branch
\* a plausible slip: any reported deletedCount counts as a deletion
todos_delete_any_count(ev, e) ==
    LET todo_id == path_id(ev) IN
    IF no_todo_id(todo_id)
    THEN Returned(<<>>, Reply(400, [error |-> "todo id is required"], <<>>))
    ELSE LET r == delete_todo(todo_id, e.reply) IN
         IF r.raised THEN r
         ELSE IF r.value.type # "object" THEN Raised(r.calls, NoGet)
         ELSE IF r.value.deletedCount # <<>>
              THEN Returned(r.calls,
                            Reply(200, [message |-> "Todo deleted successfully"], r.calls))
              ELSE Returned(r.calls, Reply(404, [error |-> "Todo not found"], r.calls))

todos_delete(ev, e) ==
    LET todo_id == path_id(ev) IN
    IF no_todo_id(todo_id)
    THEN Returned(<<>>, Reply(400, [error |-> "todo id is required"], <<>>))
    ELSE LET r == delete_todo(todo_id, e.reply) IN
         IF r.raised THEN r
         ELSE IF r.value.type # "object" THEN Raised(r.calls, NoGet)
         ELSE IF r.value.deletedCount # <<>> /\ r.value.deletedCount[1] > 0
              THEN Returned(r.calls,
                            Reply(200, [message |-> "Todo deleted successfully"], r.calls))
              ELSE Returned(r.calls, Reply(404, [error |-> "Todo not found"], r.calls))

\* the body of the try block of lambda_handler
todos_try(ev, e) ==
    CASE ev.httpMethod = "GET" -> todos_get(ev, e)
      [] ev.httpMethod = "POST" -> todos_post(ev, e)
      [] ev.httpMethod = "PUT" -> todos_put(ev, e)
      [] ev.httpMethod = "DELETE" -> todos_delete(ev, e)
      [] OTHER -> Returned(<<>>, Reply(405, [error |-> "Method not allowed"], <<>>))

\* the except clause of lambda_handler: the 500 response for exception msg
todos_except(msg, reqs) ==
    Reply(500, [error |-> "Internal server error", details |-> msg], reqs)

\* lambda_handler(event, context) of the todos service
todos_lambda_handler(ev, e) ==
    LET r == todos_try(ev, e) IN
    IF r.raised THEN todos_except(r.exc, r.calls) ELSE r.value

----------------------------------------------------------------------------
(* semantic_search_lambda_template.py *)

\* the object a search request body can denote
SearchObjects == [query : {ABSENT, NULL, "", "asia"}, limit : {<<>>, <<3>>, <<100>>}]

EmptySearchObject == [query |-> ABSENT, limit |-> <<>>]

SearchBodies ==
    {[kind |-> k, type |-> "none", obj |-> EmptySearchObject] :
        k \in {"absent", "null", "malformed"}}
    \cup {[kind |-> "json", type |-> t, obj |-> EmptySearchObject] : t \in {"array", "null"}}
    \cup {[kind |-> "json", type |-> "object", obj |-> o] : o \in SearchObjects}

SearchEvents == [body : SearchBodies]

Floats == {0, 1}

Vectors == UNION {[1..n -> Floats] : n \in 1..MaxDim}

\* outcome of bedrock.invoke_model + json.loads + ['embedding']
Embeddings ==
    {[kind |-> "ok", vector |-> v] : v \in Vectors}
    \cup {[kind |-> k, vector |-> <<0>>] : k \in {"error", "no_embedding"}}

DefaultLimit == 5
NumCandidates == 100

generate_embedding(text, embed) ==
    LET req == [endpoint |-> "invoke_model",
                data |-> [modelId |-> "amazon.titan-embed-text-v1", inputText |-> text]]
    IN  CASE embed.kind = "ok" -> Returned(<<req>>, embed.vector)
          [] embed.kind = "error" -> Raised(<<req>>, <<"<bedrock error>">>)
          [] embed.kind = "no_embedding" -> Raised(<<req>>, <<"'embedding'">>)

\* call_mongodb_api(pipeline) of the search service
search_call_mongodb_api(pipeline, reply) ==
    LET data == [database |-> "travel", collection |-> "asia", pipeline |-> pipeline]
        req == [endpoint |-> "aggregate", data |-> data]
    IN  CASE reply.kind = "ok" -> Returned(<<req>>, reply.result)
          [] reply.kind = "http_error" ->
                Raised(<<req>>, <<"MongoDB API error: ", reply.code>>)
          [] reply.kind = "transport" -> Raised(<<req>>, <<"<urlopen error>">>)
          [] reply.kind = "decode" -> Raised(<<req>>, <<"Expecting value">>)

\* a plausible slip: the result limit and the candidate pool size swapped
vector_search_pipeline_swapped(query_vector, limit) ==
    << << <<"$vectorSearch",
            << <<"index", "vector_index">>,
               <<"path", "details_embedding">>,
               <<"queryVector", query_vector>>,
               <<"numCandidates", limit>>,
               <<"limit", NumCandidates>> >> >> >>,
       << <<"$project",
            << <<"_id", 1>>,
               <<"index", 1>>,
               <<"Place Name", 1>>,
               <<"score", << <<"$meta", "vectorSearchScore">> >> >> >> >> >> >>

\* the pipeline lambda_handler builds: a list of two one-key dicts
vector_search_pipeline(query_vector, limit) ==
    << << <<"$vectorSearch",
            << <<"index", "vector_index">>,
               <<"path", "details_embedding">>,
               <<"queryVector", query_vector>>,
               <<"numCandidates", NumCandidates>>,
               <<"limit", limit>> >> >> >>,
       << <<"$project",
            << <<"_id", 1>>,
               <<"index", 1>>,
               <<"Place Name", 1>>,
               <<"score", << <<"$meta", "vectorSearchScore">> >> >> >> >> >> >>

\* json.loads(event.get('body', '{}')) of a search request
search_json_loads(body) ==
    CASE body.kind = "absent" -> Returned(<<>>, [type |-> "object", obj |-> EmptySearchObject])
      [] body.kind = "null" ->
            Raised(<<>>, <<"the JSON object must be str, bytes or bytearray, not NoneType">>)
      [] body.kind = "malformed" -> Raised(<<>>, <<"Expecting value">>)
      [] body.kind = "json" -> Returned(<<>>, [type |-> body.type, obj |-> body.obj])

\* a plausible slip: `if query is None`
no_query_is_none(query) == query = NULL

\* `if not query`
no_query(query) == ~Truthy(query)

\* body.get('limit', 5)
get_limit(obj) == IF obj.limit = <<>> THEN DefaultLimit ELSE obj.limit[1]

\* the body of the try block of lambda_handler
search_try(ev, e) ==
    LET b == search_json_loads(ev.body) IN
    IF b.raised THEN b
    ELSE IF b.value.type # "object"
         THEN Raised(<<>>, <<"object has no attribute 'get'">>)
    ELSE LET query == Get(b.value.obj, "query")
             limit == get_limit(b.value.obj)
         IN  IF no_query(query)
             THEN Returned(<<>>, Reply(400, [error |-> "query parameter is required"], <<>>))
             ELSE LET g == generate_embedding(query, e.embed) IN
                  IF g.raised THEN g
                  ELSE LET r == search_call_mongodb_api(
                                    vector_search_pipeline(g.value, limit), e.reply)
                           reqs == g.calls \o r.calls
                       IN  IF r.raised THEN Raised(reqs, r.exc)
                           ELSE Returned(reqs, Reply(200, r.value, reqs))

\* the except clause of lambda_handler: the 500 response
search_except(msg, reqs) == Reply(500, [error |-> "Internal server error"], reqs)

\* lambda_handler(event, context) of the search service
search_lambda_handler(ev, e) ==
    LET r == search_try(ev, e) IN
    IF r.raised THEN search_except(r.exc, r.calls) ELSE r.value

----------------------------------------------------------------------------
(* Invocations of the two handlers.  A handler keeps nothing between       *)
(* invocations: an invocation runs from the idle runtime to its response, *)
(* and the runtime hands the response back and is idle again.             *)

TodoEnvs == [reply : Replies, now : Times]
SearchEnvs == [reply : Replies, embed : Embeddings]

Idle == <<>>

ImportIdle ==
    /\ csvfile = [header |-> <<>>, rows |-> <<>>]
    /\ reader = 0
    /\ index = 1
    /\ inserted = <<>>
    /\ import_pc = "idle"

\* the Data API is a remote that may answer anything; no store is modelled
StoreIdle ==
    /\ backend = "remote"
    /\ store = [i \in Ids |-> <<>>]
    /\ next_id = 1
    /\ clock = 0
    /\ deleted = {}

HandlersIdle ==
    /\ pc = "idle"
    /\ handler = "none"
    /\ event = Idle
    /\ env = Idle
    /\ response = Idle
    /\ calls = Idle

Init == HandlersIdle /\ ImportIdle /\ StoreIdle

TodosLambda ==
    /\ pc = "idle"
    /\ \E ev \in TodoEvents, e \in TodoEnvs :
          LET r == todos_lambda_handler(ev, e) IN
          /\ event' = ev
          /\ env' = e
          /\ response' = r.response
          /\ calls' = r.calls
    /\ handler' = "todos"
    /\ pc' = "done"
    /\ UNCHANGED <<importVars, storeVars>>

SearchLambda ==
    /\ pc = "idle"
    /\ \E ev \in SearchEvents, e \in SearchEnvs :
          LET r == search_lambda_handler(ev, e) IN
          /\ event' = ev
          /\ env' = e
          /\ response' = r.response
          /\ calls' = r.calls
    /\ handler' = "search"
    /\ pc' = "done"
    /\ UNCHANGED <<importVars, storeVars>>

Return ==
    /\ pc = "done"
    /\ pc' = "idle"
    /\ handler' = "none"
    /\ event' = Idle
    /\ env' = Idle
    /\ response' = Idle
    /\ calls' = Idle
    /\ UNCHANGED <<importVars, storeVars>>

Next == TodosLambda \/ SearchLambda \/ Return

Spec == Init /\ [][Next]_vars

----------------------------------------------------------------------------
(* mdb_import_template.py *)

\* column.startswith('details_embedding') over the column names of the model
startswith_details_embedding(column) ==
    column \in {"details_embedding", "details_embedding_0", "details_embedding_1"}

\* float(cell): the number a cell denotes, or ValueError
float(cell) ==
    CASE cell = "1" -> [ok |-> TRUE, value |-> 1]
      [] cell = "2.0" -> [ok |-> TRUE, value |-> 2]
      [] OTHER -> [ok |-> FALSE, value |-> 0]

Headers ==
    {<<"a", "details_embedding_0", "details_embedding_1", "b">>,
     <<"details_embedding_1", "b", "details_embedding_0">>,
     <<"index", "a", "details_embedding_0">>,
     <<"a", "b">>}

\* the cells a column can hold
Cells(column) ==
    IF startswith_details_embedding(column) THEN {"1", "2.0", "x"} ELSE {"x", "1"}

RowsOf(header) ==
    {r \in [1..Len(header) -> {"1", "2.0", "x"}] :
        \A i \in 1..Len(header) : r[i] \in Cells(header[i])}

\* a file with header h and n data rows
CsvFiles(h, n) == {[header |-> h, rows |-> rs] : rs \in [1..n -> RowsOf(h)]}

\* Python values of an imported record, tagged with their type: a str is
\* never equal to an int
PyStr(s) == <<"str", s>>
PyInt(n) == <<"int", n>>
PyList(l) == <<"list", l>>

\* csv.DictReader: the row as a dict from the header's columns to the cells
DictRow(header, cells) == [i \in 1..Len(header) |-> <<header[i], PyStr(cells[i])>>]

\* row[key] = value: replaces the value of an existing key in place,
\* appends a new key
SetItem(assoc, key, value) ==
    IF key \in Keys(assoc)
    THEN [i \in 1..Len(assoc) |-> IF assoc[i][1] = key THEN <<key, value>> ELSE assoc[i]]
    ELSE Append(assoc, <<key, value>>)

\* a plausible slip: the values are collected in the wrong order
RECURSIVE detail_embedding_reversed(_, _)
detail_embedding_reversed(row, n) ==
    IF n = 0 THEN <<>>
    ELSE IF startswith_details_embedding(row[n][1])
         THEN <<float(row[n][2][2]).value>> \o detail_embedding_reversed(row, n - 1)
         ELSE detail_embedding_reversed(row, n - 1)

\* the loop over row.keys(): the embedding collected from the first n columns
RECURSIVE detail_embedding(_, _)
detail_embedding(row, n) ==
    IF n = 0 THEN <<>>
    ELSE IF startswith_details_embedding(row[n][1])
         THEN Append(detail_embedding(row, n - 1), float(row[n][2][2]).value)
         ELSE detail_embedding(row, n - 1)

\* the loop over row.keys(): the other columns of the first n columns
RECURSIVE other_columns(_, _)
other_columns(row, n) ==
    IF n = 0 THEN <<>>
    ELSE IF startswith_details_embedding(row[n][1])
         THEN other_columns(row, n - 1)
         ELSE Append(other_columns(row, n - 1), row[n])

\* float(row[column]) raises ValueError for some embedding column
float_raises(row) ==
    \E i \in 1..Len(row) :
        startswith_details_embedding(row[i][1]) /\ ~float(row[i][2][2]).ok

\* the record built for one row once row['index'] is set
new_row(row) ==
    SetItem(other_columns(row, Len(row)), "details_embedding",
            PyList(detail_embedding(row, Len(row))))

InitImport ==
    /\ HandlersIdle
    /\ StoreIdle
    /\ \E h \in Headers, n \in 0..MaxRows : csvfile \in CsvFiles(h, n)
    /\ reader = 0
    /\ index = 1
    /\ inserted = <<>>
    /\ import_pc = "loop"

\* one iteration of `for row in reader`; insert_one succeeds or raises
ImportRow ==
    /\ import_pc = "loop"
    /\ reader < Len(csvfile.rows)
    /\ reader' = reader + 1
    /\ index' = index + 1
    /\ LET row == SetItem(DictRow(csvfile.header, csvfile.rows[reader + 1]),
                          "index", PyInt(index))
       IN  IF float_raises(row)
           THEN /\ import_pc' = "aborted"
                /\ UNCHANGED inserted
           ELSE \E insert_ok \in BOOLEAN :
                   IF insert_ok
                   THEN /\ inserted' = Append(inserted, new_row(row))
                        /\ UNCHANGED import_pc
                   ELSE /\ import_pc' = "aborted"
                        /\ UNCHANGED inserted
    /\ UNCHANGED <<csvfile, handlerVars, storeVars>>

\* the reader is exhausted: 'Finished import successfully'
ImportFinish ==
    /\ import_pc = "loop"
    /\ reader = Len(csvfile.rows)
    /\ import_pc' = "done"
    /\ UNCHANGED <<csvfile, reader, index, inserted, handlerVars, storeVars>>

NextImport == ImportRow \/ ImportFinish

SpecImport == InitImport /\ [][NextImport]_vars

----------------------------------------------------------------------------
(* Properties of the handlers, checked under Spec *)

TodosDone == pc = "done" /\ handler = "todos"
SearchDone == pc = "done" /\ handler = "search"

\* the request body is JSON text for an object ('{}' when the key is missing)
BodyIsObject ==
    event.body.kind = "absent" \/ (event.body.kind = "json" /\ event.body.type = "object")

\* the path parameters carry no id
PathIdMissing ==
    event.pathParameters.kind \in {"absent", "null"}
    \/ event.pathParameters.id \in {ABSENT, ""}

\* the remote call succeeded with a JSON object
ReplyIsObject == env.reply.kind = "ok" /\ env.reply.result.type = "object"

StatusBody(status, body) == response.statusCode = status /\ response.body = body

\* the requests of the invocation that went to the Data API
DataApiCalls == SelectSeq(calls, LAMBDA c : c.endpoint # "invoke_model")

\* C1: whenever an exception is raised inside either handler, the response
\* is 500 with the body {"error": "Internal server error"} and nothing else.
C1_GenericInternalError ==
    /\ TodosDone /\ todos_try(event, env).raised
          => StatusBody(500, [error |-> "Internal server error"])
    /\ SearchDone /\ search_try(event, env).raised
          => StatusBody(500, [error |-> "Internal server error"])

\* C2: a POST whose body object has no title, or an empty one, is answered
\* 400 "title is required" without any Data API call; with a non-empty
\* title exactly one insertOne is issued and its successful result is
\* returned with status 201.
C2_TitleRequired ==
    TodosDone /\ event.httpMethod = "POST" /\ BodyIsObject =>
        IF event.body.obj.title \in {ABSENT, NULL, ""}
        THEN StatusBody(400, [error |-> "title is required"]) /\ calls = <<>>
        ELSE /\ Len(calls) = 1
             /\ calls[1].endpoint = "insertOne"
             /\ env.reply.kind = "ok" => StatusBody(201, env.reply.result)

C2_Witness ==
    /\ TodosDone /\ event.httpMethod = "POST"
    /\ event.body.kind = "json" /\ event.body.type = "object"
    /\ event.body.obj.title = "" /\ event.body.obj.description = "d"
    /\ response.statusCode = 400

\* C3: a PUT with an id whose body object has none of title, description
\* and completed is answered 400 "No fields to update" without any Data API
\* call.
C3_NoFieldsToUpdate ==
    TodosDone /\ event.httpMethod = "PUT" /\ ~PathIdMissing /\ BodyIsObject
    /\ event.body.obj.title = ABSENT
    /\ event.body.obj.description = ABSENT
    /\ event.body.obj.completed = ABSENT
        => StatusBody(400, [error |-> "No fields to update"]) /\ calls = <<>>

C3_Witness ==
    /\ TodosDone /\ event.httpMethod = "PUT" /\ event.pathParameters.id = "1"
    /\ event.body.kind = "json" /\ event.body.type = "object"
    /\ event.body.obj = [EmptyTodoObject EXCEPT !.other = "x"]
    /\ response.statusCode = 400

\* C4: a PUT or DELETE without an id is answered 400 "todo id is required"
\* without any Data API call, whatever the body is.
C4_TodoIdRequired ==
    TodosDone /\ event.httpMethod \in {"PUT", "DELETE"} /\ PathIdMissing
        => StatusBody(400, [error |-> "todo id is required"]) /\ calls = <<>>

C4_Witness ==
    /\ TodosDone /\ event.httpMethod = "PUT"
    /\ event.pathParameters = [kind |-> "dict", id |-> ""]
    /\ event.body.kind = "malformed"
    /\ response.statusCode = 400

\* C5: a GET with an id issues exactly one findOne with filter {_id: id};
\* no document gives 404 "Todo not found", a document gives 200 with that
\* document.  A GET without an id issues one find with the empty filter and
\* answers 200 {todos: documents}.
C5_GetTodo ==
    TodosDone /\ event.httpMethod = "GET" =>
        /\ Len(calls) = 1
        /\ IF PathIdMissing
           THEN /\ calls[1].endpoint = "find"
                /\ calls[1].data.filter = <<>>
                /\ ReplyIsObject
                      => StatusBody(200, [todos |-> env.reply.result.documents])
           ELSE /\ calls[1].endpoint = "findOne"
                /\ calls[1].data.filter = << <<"_id", event.pathParameters.id>> >>
                /\ ReplyIsObject =>
                      IF env.reply.result.document = <<>>
                      THEN StatusBody(404, [error |-> "Todo not found"])
                      ELSE StatusBody(200, env.reply.result.document[1])

C5_Witness ==
    /\ TodosDone /\ event.httpMethod = "GET" /\ event.pathParameters.id = "2"
    /\ ReplyIsObject /\ env.reply.result.document = <<>>
    /\ response.statusCode = 404

\* the $vectorSearch stage of an aggregate request
VectorSearchStage(call) == Lookup(call.data.pipeline[1], "$vectorSearch")

\* C6: a search whose body object has no query, or an empty one, is
\* answered 400 "query parameter is required" and invokes neither the
\* embedding model nor the Data API; an absent limit is searched as 5.
C6_QueryRequired ==
    SearchDone /\ BodyIsObject =>
        /\ event.body.obj.query \in {ABSENT, NULL, ""}
              => StatusBody(400, [error |-> "query parameter is required"]) /\ calls = <<>>
        /\ \A i \in 1..Len(calls) :
              calls[i].endpoint = "aggregate" /\ event.body.obj.limit = <<>>
                  => Lookup(VectorSearchStage(calls[i]), "limit") = 5

C6_Witness ==
    /\ SearchDone /\ event.body.kind = "json" /\ event.body.type = "object"
    /\ event.body.obj = [query |-> "", limit |-> <<3>>]
    /\ response.statusCode = 400

\* C7: the insertOne issued for a creation with a non-empty title carries a
\* document with completed = false, created_at = updated_at, the title of
\* the request and its description, or "" when there is none.
C7_CreatedDocument ==
    TodosDone /\ event.httpMethod = "POST" /\ BodyIsObject
    /\ event.body.obj.title \notin {ABSENT, NULL, ""} =>
        /\ calls # <<>>
        /\ calls[1].endpoint = "insertOne"
        /\ LET document == calls[1].data.document
               description == event.body.obj.description
           IN  /\ document.completed = "false"
               /\ document.created_at = document.updated_at
               /\ document.title = event.body.obj.title
               /\ document.description =
                     IF description \in {ABSENT, NULL} THEN "" ELSE description

C7_Witness ==
    /\ TodosDone /\ event.httpMethod = "POST" /\ BodyIsObject
    /\ event.body.obj.title = "a" /\ event.body.obj.description = ABSENT
    /\ calls # <<>> /\ calls[1].endpoint = "insertOne"
    /\ calls[1].data.document.description = ""

\* the limit the search request asks for
RequestedLimit == IF event.body.obj.limit = <<>> THEN 5 ELSE event.body.obj.limit[1]

\* C9: the pipeline of every aggregate request is $vectorSearch followed by
\* $project, and the $vectorSearch stage gives back the query vector V the
\* embedding model returned, the limit L of the request and the candidate
\* pool size C (which the handler fixes at 100).
C9_PipelineRoundTrip ==
    SearchDone =>
        /\ BodyIsObject /\ Truthy(Get(event.body.obj, "query")) /\ env.embed.kind = "ok"
              => \E i \in 1..Len(calls) : calls[i].endpoint = "aggregate"
        /\ \A i \in 1..Len(calls) : calls[i].endpoint = "aggregate" =>
              LET pipeline == calls[i].data.pipeline IN
              /\ Len(pipeline) = 2
              /\ Keys(pipeline[1]) = {"$vectorSearch"}
              /\ Keys(pipeline[2]) = {"$project"}
              /\ Lookup(VectorSearchStage(calls[i]), "queryVector") = env.embed.vector
              /\ Lookup(VectorSearchStage(calls[i]), "limit") = RequestedLimit
              /\ Lookup(VectorSearchStage(calls[i]), "numCandidates") = 100

C9_Witness ==
    /\ SearchDone /\ Len(calls) = 2 /\ calls[2].endpoint = "aggregate"
    /\ event.body.obj.limit = <<3>>
    /\ env.embed.vector = <<1, 0>>
    /\ Lookup(VectorSearchStage(calls[2]), "queryVector") = <<1, 0>>

\* the todos request passes validation and reaches call_mongodb_api
TodosReachesApi ==
    CASE event.httpMethod = "GET" -> TRUE
      [] event.httpMethod = "POST" ->
            BodyIsObject /\ event.body.obj.title \notin {ABSENT, NULL, ""}
      [] event.httpMethod = "PUT" ->
            /\ ~PathIdMissing /\ BodyIsObject
            /\ \E k \in {"title", "description", "completed"} : event.body.obj[k] # ABSENT
      [] event.httpMethod = "DELETE" -> ~PathIdMissing
      [] OTHER -> FALSE

\* the search request passes validation and the embedding is generated
SearchReachesApi ==
    BodyIsObject /\ event.body.obj.query \notin {ABSENT, NULL, ""} /\ env.embed.kind = "ok"

\* C10: an invocation of call_mongodb_api sends exactly one request: a 2xx
\* reply is returned as decoded, any other outcome raises without a second
\* request; so a handler invocation issues at most one Data API call.
C10_OneRequestNoRetry ==
    /\ TodosDone =>
          /\ Len(calls) = IF TodosReachesApi THEN 1 ELSE 0
          /\ TodosReachesApi /\ env.reply.kind # "ok" => response.statusCode = 500
          /\ TodosReachesApi /\ env.reply.kind = "ok" /\ event.httpMethod = "POST"
                => response.body = env.reply.result
    /\ SearchDone =>
          /\ Len(DataApiCalls) = IF SearchReachesApi THEN 1 ELSE 0
          /\ SearchReachesApi /\ env.reply.kind # "ok" => response.statusCode = 500
          /\ SearchReachesApi /\ env.reply.kind = "ok"
                => StatusBody(200, env.reply.result)

C10_Witness ==
    /\ TodosDone /\ event.httpMethod = "DELETE" /\ event.pathParameters.id = "1"
    /\ env.reply.kind = "http_error" /\ env.reply.code = 500
    /\ Len(calls) = 1 /\ response.statusCode = 500

----------------------------------------------------------------------------
(* Properties of the importer, checked under SpecImport *)

\* the positions of the embedding columns of a header, and the k-th of them
EmbeddingColumns(header) ==
    {j \in 1..Len(header) : startswith_details_embedding(header[j])}

KthEmbeddingColumn(header, k) ==
    CHOOSE j \in EmbeddingColumns(header) :
        Cardinality({m \in EmbeddingColumns(header) : m < j}) = k - 1

\* the float values of the embedding columns of a row, in column order
ExpectedEmbedding(header, cells) ==
    [k \in 1..Cardinality(EmbeddingColumns(header)) |->
        float(cells[KthEmbeddingColumn(header, k)]).value]

\* record is what the claim describes for the i-th data row; the columns
\* named in except are not required to be preserved
RecordOf(record, header, cells, i, except) ==
    /\ \A j \in 1..Len(header) :
          ~startswith_details_embedding(header[j]) /\ header[j] \notin except
              => header[j] \in Keys(record) /\ Lookup(record, header[j]) = PyStr(cells[j])
    /\ "details_embedding" \in Keys(record)
    /\ Lookup(record, "details_embedding") = PyList(ExpectedEmbedding(header, cells))
    /\ "index" \in Keys(record)
    /\ Lookup(record, "index") = PyInt(i)

\* C8 as stated: an import that runs to its end has inserted one record per
\* data row, in file order, and every record inserted preserves every
\* non-embedding column verbatim, has the embedding in column order and
\* index = row number.
C8_ImportAsStated ==
    /\ import_pc = "done" => Len(inserted) = Len(csvfile.rows)
    /\ \A i \in 1..Len(inserted) :
          i <= Len(csvfile.rows)
          /\ RecordOf(inserted[i], csvfile.header, csvfile.rows[i], i, {})

\* C8 amended: the importer inserts one record per data row, in file order
\* (all of them when it runs to its end, those before the row it cannot
\* convert or insert when it stops there); each record preserves every
\* non-embedding column verbatim except a column named index, which holds
\* the row counter, has the embedding in column order and index = row
\* number.
C8_Import ==
    /\ Len(inserted) = IF import_pc = "aborted" THEN reader - 1 ELSE reader
    /\ index = reader + 1
    /\ import_pc = "done" => Len(inserted) = Len(csvfile.rows)
    /\ \A i \in 1..Len(inserted) :
          /\ RecordOf(inserted[i], csvfile.header, csvfile.rows[i], i, {"index"})
          /\ Keys(inserted[i]) =
                {csvfile.header[j] : j \in 1..Len(csvfile.header) \ EmbeddingColumns(csvfile.header)}
                \cup {"index", "details_embedding"}

C8_Witness ==
    /\ import_pc = "done"
    /\ csvfile.header = <<"a", "details_embedding_0", "details_embedding_1", "b">>
    /\ Len(inserted) = 2
    /\ Lookup(inserted[2], "details_embedding") = PyList(<<1, 2>>)
    /\ Lookup(inserted[2], "index") = PyInt(2)

----------------------------------------------------------------------------
(* test_api_template.py *)

\* [0.1, 0.2, 0.3] + [0.0] * 1533, in tenths: longer than any vector the
\* embedding model of this model returns
FallbackVector == <<1, 2, 3>> \o [i \in 1..MaxDim |-> 0]

\* generate_embedding of the test script: a failure of the embedding model
\* is answered with the fallback vector
test_generate_embedding(text, embed) ==
    LET req == [endpoint |-> "invoke_model",
                data |-> [modelId |-> "amazon.titan-embed-text-v1", inputText |-> text]]
    IN  IF embed.kind = "ok"
        THEN Returned(<<req>>, embed.vector)
        ELSE Returned(<<req>>, FallbackVector)

\* make_request(endpoint, data): requests.post answers with a status and a
\* text, whatever the status, or raises when the transport fails
make_request(endpoint, data, outcome) ==
    LET req == [endpoint |-> endpoint, data |-> data] IN
    IF outcome = "transport"
    THEN Raised(<<req>>, <<"ConnectionError">>)
    ELSE Returned(<<req>>, outcome)

RequestOutcomes == {"200", "500", "transport"}

TestApiEnvs == [embed : Embeddings, insertOne : RequestOutcomes,
                find : RequestOutcomes, aggregate : RequestOutcomes]

\* the pipeline of the test script: the handler's, with limit 5
test_vector_search_pipeline(query_vector) ==
    vector_search_pipeline(query_vector, DefaultLimit)

\* __main__ of the test script: the requests it sends until it ends or an
\* uncaught exception ends it
test_api_main(e) ==
    LET r1 == make_request("insertOne",
                  [database |-> "test", collection |-> "users",
                   document |-> [name |-> "john_doe", email |-> "john@example.com",
                                age |-> 30]],
                  e.insertOne)
        r2 == make_request("find", [database |-> "test", collection |-> "users"], e.find)
        g == test_generate_embedding("Find travel recommendations for Asia", e.embed)
        r3 == make_request("aggregate",
                  [database |-> "travel", collection |-> "asia",
                   pipeline |-> test_vector_search_pipeline(g.value)],
                  e.aggregate)
    IN  IF r1.raised THEN r1.calls
        ELSE IF r2.raised THEN r1.calls \o r2.calls
        ELSE r1.calls \o r2.calls \o g.calls \o r3.calls

\* one run of the test script
TestApi ==
    /\ pc = "idle"
    /\ \E e \in TestApiEnvs :
          /\ env' = e
          /\ calls' = test_api_main(e)
    /\ event' = Idle
    /\ response' = Idle
    /\ handler' = "test_api"
    /\ pc' = "done"
    /\ UNCHANGED <<importVars, storeVars>>

\* the programs that generate embeddings: the search handler and the test
\* script
NextEmbedding == SearchLambda \/ TestApi \/ Return

SpecEmbedding == Init /\ [][NextEmbedding]_vars

\* C11: a failure of the embedding model is propagated: the search handler
\* answers 500 without any Data API call, and no aggregate request is ever
\* sent whose queryVector the embedding model did not return.
C11_EmbeddingFailurePropagates ==
    /\ SearchDone /\ BodyIsObject /\ Truthy(Get(event.body.obj, "query"))
       /\ env.embed.kind # "ok"
          => response.statusCode = 500 /\ DataApiCalls = <<>>
    /\ pc = "done" =>
          \A i \in 1..Len(calls) : calls[i].endpoint = "aggregate" =>
              /\ env.embed.kind = "ok"
              /\ Lookup(VectorSearchStage(calls[i]), "queryVector") = env.embed.vector

----------------------------------------------------------------------------
(* Properties of the update and delete operations, checked under Spec *)

\* the recognized fields the request body carries
RecognizedPresent ==
    {k \in {"title", "description", "completed"} : event.body.obj[k] # ABSENT}

\* C12: every updateOne the todos handler issues has filter {_id: id} and a
\* $set whose keys are exactly the recognized fields of the request body, at
\* least one, with the body's values, plus updated_at; nothing else is set.
C12_UpdateSet ==
    TodosDone =>
        /\ event.httpMethod = "PUT" /\ ~PathIdMissing /\ BodyIsObject
           /\ RecognizedPresent # {}
              => \E i \in 1..Len(calls) : calls[i].endpoint = "updateOne"
        /\ \A i \in 1..Len(calls) : calls[i].endpoint = "updateOne" =>
              LET set == calls[i].data.update.set IN
              /\ calls[i].data.filter = << <<"_id", event.pathParameters.id>> >>
              /\ RecognizedPresent # {}
              /\ Keys(set) = RecognizedPresent \cup {"updated_at"}
              /\ Len(set) = Cardinality(Keys(set))
              /\ \A k \in RecognizedPresent : Lookup(set, k) = event.body.obj[k]
              /\ Lookup(set, "updated_at") = isoformat(env.now)

C12_Witness ==
    /\ TodosDone /\ event.httpMethod = "PUT" /\ event.pathParameters.id = "1"
    /\ event.body.obj = [title |-> ABSENT, description |-> "d",
                         completed |-> "true", other |-> "x"]
    /\ Len(calls) = 1 /\ calls[1].endpoint = "updateOne"
    /\ Keys(calls[1].data.update.set) = {"description", "completed", "updated_at"}

----------------------------------------------------------------------------
(* The todos handler against a backing store.  The Data API is the         *)
(* database of section 6 of the specification: insertOne assigns a fresh   *)
(* id and answers insertedId, findOne and find answer document and        *)
(* documents, updateOne answers modifiedCount (1 when the document        *)
(* changed) and deleteOne answers deletedCount; an _id filter matches the *)
(* id that insertOne answered.  Every request is served at a later        *)
(* reading of the clock than the one before.                              *)

\* the ids the database assigns, in order
IdSeq == <<"1", "2">>

\* the document stored for an inserted document
stored_document(document, id) ==
    [id |-> id, title |-> document.title, description |-> document.description,
     completed |-> document.completed, created_at |-> document.created_at,
     updated_at |-> document.updated_at]

\* $set applied to a stored document
apply_set(doc, set) ==
    [f \in DOMAIN doc |-> IF f \in Keys(set) THEN Lookup(set, f) ELSE doc[f]]

\* the documents of the store, in id order
store_documents(st) ==
    LET present == SelectSeq(IdSeq, LAMBDA i : st[i] # <<>>)
    IN  [k \in 1..Len(present) |-> st[present[k]][1]]

\* the Data API but for insertOne: the decoded result of a request and the
\* store after it
data_api(st, req) ==
    LET id == IF req.data.filter = <<>> THEN ABSENT ELSE Lookup(req.data.filter, "_id")
        found == id \in Ids /\ st[id] # <<>>
    IN  CASE req.endpoint = "find" ->
                [result |-> [EmptyResult EXCEPT !.documents = store_documents(st)],
                 store |-> st]
          [] req.endpoint = "findOne" ->
                [result |-> [EmptyResult EXCEPT !.document = IF found THEN st[id] ELSE <<>>],
                 store |-> st]
          [] req.endpoint = "updateOne" ->
                IF found
                THEN LET new == apply_set(st[id][1], req.data.update.set) IN
                     [result |-> [EmptyResult EXCEPT
                                     !.modifiedCount = IF new = st[id][1] THEN <<0>> ELSE <<1>>],
                      store |-> [st EXCEPT ![id] = <<new>>]]
                ELSE [result |-> [EmptyResult EXCEPT !.modifiedCount = <<0>>], store |-> st]
          [] req.endpoint = "deleteOne" ->
                IF found
                THEN [result |-> [EmptyResult EXCEPT !.deletedCount = <<1>>],
                      store |-> [st EXCEPT ![id] = <<>>]]
                ELSE [result |-> [EmptyResult EXCEPT !.deletedCount = <<0>>], store |-> st]

\* insertOne of the Data API, with the next fresh id
data_api_insert(st, nid, req) ==
    [result |-> [EmptyResult EXCEPT !.insertedId = IdSeq[nid]],
     store |-> [st EXCEPT ![IdSeq[nid]] = <<stored_document(req.data.document, IdSeq[nid])>>]]

\* the requests of a client of the todos API
StoreObjects ==
    [title : {ABSENT, "a"}, description : {ABSENT, "d"},
     completed : {ABSENT, "true"}, other : {ABSENT}]

StoreEvents ==
    [httpMethod : Methods,
     pathParameters : {[kind |-> "dict", id |-> v] : v \in {ABSENT} \cup Ids},
     body : {[kind |-> "json", type |-> "object", obj |-> o] : o \in StoreObjects}]

OkReply(result) == [kind |-> "ok", code |-> 200, result |-> result]
DownReply == [kind |-> "http_error", code |-> 500, result |-> EmptyResult]

\* the Data API answering the one request of an invocation
store_answer(st, nid, sent) ==
    IF sent[1].endpoint = "insertOne"
    THEN data_api_insert(st, nid, sent[1])
    ELSE data_api(st, sent[1])

\* lambda_handler of the todos service served by the store; the request it
\* sends does not depend on the reply, up says whether the Data API answers
TodosStore ==
    /\ pc = "idle"
    /\ backend = "store"
    /\ clock < MaxClock
    /\ \E ev \in StoreEvents, up \in BOOLEAN :
       \E sent \in {todos_lambda_handler(ev, [reply |-> DownReply, now |-> clock + 1]).calls} :
       \E served \in {sent # <<>> /\ up} :
       \E inserts \in {served /\ sent[1].endpoint = "insertOne"} :
       \E fresh \in {inserts => next_id <= Len(IdSeq)} :
       \E answer \in {IF served /\ fresh THEN store_answer(store, next_id, sent)
                                        ELSE [result |-> EmptyResult, store |-> store]} :
       \E rep \in {IF served THEN OkReply(answer.result) ELSE DownReply} :
       \E r \in {todos_lambda_handler(ev, [reply |-> rep, now |-> clock + 1])} :
          /\ fresh
          /\ event' = ev
          /\ env' = [reply |-> rep, now |-> clock + 1]
          /\ response' = r.response
          /\ calls' = r.calls
          /\ store' = answer.store
          /\ next_id' = IF inserts THEN next_id + 1 ELSE next_id
          /\ deleted' = IF ev.httpMethod = "DELETE" /\ r.response.statusCode = 200
                        THEN deleted \cup {ev.pathParameters.id}
                        ELSE deleted
    /\ clock' = clock + 1
    /\ handler' = "todos"
    /\ pc' = "done"
    /\ UNCHANGED <<importVars, backend>>

\* the handler runs against the store, or against a remote that may answer
\* anything
InitStore ==
    /\ HandlersIdle
    /\ ImportIdle
    /\ backend \in {"remote", "store"}
    /\ store = [i \in Ids |-> <<>>]
    /\ next_id = 1
    /\ clock = 0
    /\ deleted = {}

TodosRemote == backend = "remote" /\ TodosLambda

NextStore == TodosRemote \/ TodosStore \/ Return

SpecStore == InitStore /\ [][NextStore]_vars

ValidPut ==
    /\ event.httpMethod = "PUT" /\ ~PathIdMissing /\ BodyIsObject
    /\ RecognizedPresent # {}

ValidDelete == event.httpMethod = "DELETE" /\ ~PathIdMissing

GetWithId == event.httpMethod = "GET" /\ ~PathIdMissing

Positive(count) == count # <<>> /\ count[1] > 0

TodoNotFound == StatusBody(404, [error |-> "Todo not found"])

\* the answer to a valid PUT or DELETE follows the count of the result
CountDecides ==
    TodosDone /\ ReplyIsObject =>
        /\ ValidPut =>
              /\ response.statusCode = 200 <=> Positive(env.reply.result.modifiedCount)
              /\ TodoNotFound <=> ~Positive(env.reply.result.modifiedCount)
        /\ ValidDelete =>
              /\ response.statusCode = 200 <=> Positive(env.reply.result.deletedCount)
              /\ TodoNotFound <=> ~Positive(env.reply.result.deletedCount)

====
